---- MODULE Spec2Model ----
(***************************************************************************)
(* Model of the backlog manager service (src/src/backlog_manager/main.py). *)
(*                                                                         *)
(* State: the tasks file on disk, the condition of the disk, the session   *)
(* context's active_issue, and the message the last tool call returned.    *)
(* Two history variables serve the properties only: `selected` (an issue   *)
(* has been created, initialized or selected in this session) and `before` *)
(* (the task count of every issue before the latest step).  `procs` is the *)
(* state of several server processes started on the same tasks file; it is *)
(* used by SpecRace only, where a handler is two steps: load and save.     *)
(* One action per tool; each action is the whole handler: load, checks,    *)
(* mutation, save, assignment of active_issue and the returned message.    *)
(*                                                                         *)
(* Encodings.  An Optional[str] is a sequence: << >> is None and <<s>> is  *)
(* the string s.  A dict whose order is observable (an issue's tasks) is a *)
(* sequence of entries with distinct ids, in insertion order; the issues   *)
(* dict is a function from its keys.  A returned message is a record: its  *)
(* kind is the sentence of the source it comes from and the other fields   *)
(* are the values the f-string interpolates.  A multi-line message is the  *)
(* sequence of its lines.                                                  *)
(***************************************************************************)
EXTENDS Naturals, Sequences, FiniteSets

VARIABLES file, disk, active_issue, last, selected, before, procs

vars == <<file, disk, active_issue, last, selected, before, procs>>

(***************************************************************************)
(* Bounds of the model and the argument sets the tools are called with.    *)
(***************************************************************************)
\* str(uuid.uuid4())[:8] has 16^8 values; the model has NumTaskIds of them.
NumTaskIds == 2

\* The identifiers are opaque strings.
IdNames == <<"t1", "t2", "t3", "t4">>

TaskIds == {IdNames[i] : i \in 1..NumTaskIds}

\* Issue names the tools are called with; "" is a string like any other.
Names == {"", "A"}

\* <<name, description>> pairs create_issue and initialize_issue are called
\* with: each name, and for one name each description.
IssueTexts == {<<"", "">>, <<"A", "">>, <<"A", "d">>}

\* <<title, description>> pairs add_task is called with: each field empty
\* and non-empty.
TaskTexts == {<<"T", "d">>, <<"", "">>}

(***************************************************************************)
(* class TaskStatus / class IssueStatus: str-valued enumerations.  A member *)
(* compares equal to its value and json.dump writes the value.             *)
(***************************************************************************)
TaskStatus_NEW == "New"

IssueStatus_NEW == "New"

TaskStatus == {"New", "InWork", "Done"}

IssueStatus == {"New", "InWork", "Done"}

\* Status strings the task tools are called with: the three values and a
\* string that is none of them.
StatusArgs == {"New", "InWork", "Done", "Bad"}

\* Status strings the issue tools are called with.
IssueStatusArgs == {"New", "Done", "Bad"}

\* list_tasks' optional parameter: None, the empty string, or a string.
FilterArgs == {<< >>, <<"">>} \cup {<<s>> : s \in StatusArgs}

None == << >>

\* Python truthiness of an Optional[str]: None and "" are falsy.
Truthy(opt) ==
    opt # << >> /\ opt[1] # ""

(***************************************************************************)
(* The document.  The file is missing, holds text json.load rejects, holds *)
(* {"issues": null}, or holds a store {"issues": {name: issue}}, or holds  *)
(* JSON of another shape that contains "issues".  An issue                 *)
(* is [description, status, tasks]; a legacy issue has no status field.    *)
(* A task entry is [id, title, description, status].                       *)
(***************************************************************************)
NoIssues == [n \in {} |-> << >>]

Store(issues) ==
    [kind |-> "store", issues |-> issues]

Missing == [kind |-> "missing"]

Garbage == [kind |-> "garbage"]

NullIssues == [kind |-> "nullissues"]

\* The file holds JSON that is not an object and passes the test
\* `"issues" not in data`: the string "issues" or the list ["issues"].
NotAStore == [kind |-> "notastore"]

\* `key in dict` for an ordered task dict.
HasTask(tasks, task_id) ==
    \E i \in 1..Len(tasks) : tasks[i].id = task_id

TaskIndex(tasks, task_id) ==
    CHOOSE i \in 1..Len(tasks) : tasks[i].id = task_id

\* dict[key] for an ordered task dict.
GetTask(tasks, task_id) ==
    tasks[TaskIndex(tasks, task_id)]

\* dict[key] = value: a present key keeps its place, a new key goes last.
PutTask(tasks, entry) ==
    IF HasTask(tasks, entry.id)
    THEN [tasks EXCEPT ![TaskIndex(tasks, entry.id)] = entry]
    ELSE Append(tasks, entry)

\* An assignment that keeps no other issue.
PutIssue_Alone(issues, name, issue) ==
    [n \in {name} |-> issue]

\* data["issues"][name] = issue.
PutIssue(issues, name, issue) ==
    [n \in (DOMAIN issues) \cup {name} |-> IF n = name THEN issue ELSE issues[n]]

\* issue_data.get("status", IssueStatus.NEW)
GetStatus(issue) ==
    IF "status" \in DOMAIN issue THEN issue.status ELSE IssueStatus_NEW

\* What an f-string prints for the member IssueStatus.NEW: format() of a
\* member of a (str, Enum) class is the value up to Python 3.10 and the
\* member's name from Python 3.11 on.  setup.py asks for no version.
FormatMember == {"New", "IssueStatus.NEW"}

\* What an f-string prints for GetStatus(issue): a string loaded from the
\* file prints as itself, the default member as the interpreter `member`
\* prints it.
FormatStatus(issue, member) ==
    IF "status" \in DOMAIN issue THEN GetStatus(issue) ELSE member

\* The interpreters that can be told apart when the statuses of `issues`
\* are printed: both when the default member is printed, otherwise one.
Interpreters(issues) ==
    IF \E n \in DOMAIN issues : "status" \notin DOMAIN issues[n]
    THEN FormatMember
    ELSE {IssueStatus_NEW}

(***************************************************************************)
(* Persistence.                                                            *)
(***************************************************************************)
\* _load_tasks: a missing file and any exception give the empty store; a
\* parsed document that has the key "issues" is returned as it is.
_load_tasks(f) ==
    CASE f.kind = "missing" -> Store(NoIssues)
      [] f.kind = "garbage" -> Store(NoIssues)
      [] OTHER -> f

\* A save that cannot fail.
_save_tasks_Always(f, data) ==
    data

\* _save_tasks: open(path, "w") and json.dump, every exception swallowed.
\* A refused open leaves the file as it was; a write that fails after the
\* open has truncated the file leaves text that does not parse.
_save_tasks(f, data) ==
    CASE disk = "ok" -> data
      [] disk = "denied" -> f
      [] disk = "full" -> Garbage

\* The dict the handlers index: data["issues"] is usable as a mapping.
IsMapping(data) ==
    data.kind = "store"

(***************************************************************************)
(* Returned messages.                                                      *)
(***************************************************************************)
SelectingOps == {"create_issue", "initialize_issue", "select_issue"}

\* The issues of the document f as the handlers load them (none when the
\* loaded "issues" is not a mapping), and their task counts.
Issues(f) ==
    IF IsMapping(_load_tasks(f)) THEN _load_tasks(f).issues ELSE NoIssues

TaskCounts(f) ==
    [n \in DOMAIN Issues(f) |-> Len(Issues(f)[n].tasks)]

\* The handler returns msg; `selected` records that a create_issue,
\* initialize_issue or select_issue has succeeded in this session.
Return(msg) ==
    /\ last' = msg
    /\ selected' = (selected \/ (msg.op \in SelectingOps /\ msg.kind = "ok"))
    /\ before' = TaskCounts(file)
    /\ UNCHANGED procs

\* except Exception as e: return f"Error ...: {str(e)}"
Raised(op) ==
    /\ Return([op |-> op, kind |-> "Exception"])
    /\ UNCHANGED <<file, disk, active_issue>>

\* An early `return` of an error or information message.
Answer(msg) ==
    /\ Return(msg)
    /\ UNCHANGED <<file, disk, active_issue>>

InvalidStatus(op, status) ==
    [op |-> op, kind |-> "InvalidStatus", status |-> status]

IssueNotFound(op, name) ==
    [op |-> op, kind |-> "IssueNotFound", name |-> name]

NoActiveIssue(op) ==
    [op |-> op, kind |-> "NoActiveIssue"]

(***************************************************************************)
(* Issue tools.                                                            *)
(***************************************************************************)
\* An issue stored with the default status whatever status was given.
NewIssue_DefaultStatus(description, status) ==
    [description |-> description, status |-> IssueStatus_NEW, tasks |-> << >>]

\* The issue create_issue and initialize_issue store.
NewIssue(description, status) ==
    [description |-> description, status |-> status, tasks |-> << >>]

\* create_issue with the status validated before the name is looked up.
CreateCheck_StatusFirst(issues, name, status) ==
    IF status \notin IssueStatus
    THEN << InvalidStatus("create_issue", status) >>
    ELSE IF name \in DOMAIN issues
    THEN << [op |-> "create_issue", kind |-> "AlreadyExists", name |-> name] >>
    ELSE None

\* The two checks of create_issue, in the order of the source: the message
\* they return, or None when both pass.
CreateCheck(issues, name, status) ==
    IF name \in DOMAIN issues
    THEN << [op |-> "create_issue", kind |-> "AlreadyExists", name |-> name] >>
    ELSE IF status \notin IssueStatus
    THEN << InvalidStatus("create_issue", status) >>
    ELSE None

create_issue(name, description, status) ==
    LET data == _load_tasks(file) IN
    IF ~IsMapping(data) THEN Raised("create_issue")
    ELSE IF CreateCheck(data.issues, name, status) # None
    THEN Answer(CreateCheck(data.issues, name, status)[1])
    ELSE /\ file' = _save_tasks(file,
                      Store(PutIssue(data.issues, name, NewIssue(description, status))))
         /\ active_issue' = <<name>>
         /\ Return([op |-> "create_issue", kind |-> "ok", name |-> name,
                    status |-> status])
         /\ UNCHANGED disk

\* One line pair of list_issues.  The descriptions of the model are shorter
\* than the 30 characters of the preview, so the preview is the description.
IssueLine(name, issue, active, member) ==
    [name |-> name, active |-> (active = <<name>>),
     status |-> FormatStatus(issue, member),
     tasks |-> Len(issue.tasks), preview |-> issue.description]

list_issues ==
    LET data == _load_tasks(file) IN
    IF data.kind = "nullissues" \/ (IsMapping(data) /\ DOMAIN data.issues = {})
    THEN Answer([op |-> "list_issues", kind |-> "NoIssues"])
    ELSE IF ~IsMapping(data) THEN Raised("list_issues")
    ELSE \E member \in Interpreters(data.issues) :
         Answer([op |-> "list_issues", kind |-> "ok",
                 lines |-> {IssueLine(n, data.issues[n], active_issue, member) :
                              n \in DOMAIN data.issues}])

\* select_issue without the lookup of the name.
select_issue_Unchecked(name) ==
    /\ active_issue' = <<name>>
    /\ Return([op |-> "select_issue", kind |-> "ok", name |-> name])
    /\ UNCHANGED <<file, disk>>

select_issue(name) ==
    LET data == _load_tasks(file) IN
    IF ~IsMapping(data) THEN Raised("select_issue")
    ELSE IF name \notin DOMAIN data.issues
    THEN Answer(IssueNotFound("select_issue", name))
    ELSE /\ active_issue' = <<name>>
         /\ Return([op |-> "select_issue", kind |-> "ok", name |-> name])
         /\ UNCHANGED <<file, disk>>

\* initialize_issue that resets the fields of an existing issue and keeps
\* its tasks.
ResetIssue_KeepTasks(issues, name, description, status) ==
    PutIssue(issues, name,
             IF name \in DOMAIN issues
             THEN [description |-> description, status |-> status,
                   tasks |-> issues[name].tasks]
             ELSE NewIssue(description, status))

\* data["issues"][name] = {description, status, "tasks": {}} of
\* initialize_issue: whatever was under name is replaced.
ResetIssue(issues, name, description, status) ==
    PutIssue(issues, name, NewIssue(description, status))

initialize_issue(name, description, status) ==
    LET data == _load_tasks(file) IN
    IF status \notin IssueStatus
    THEN Answer(InvalidStatus("initialize_issue", status))
    ELSE IF ~IsMapping(data) THEN Raised("initialize_issue")
    ELSE /\ file' = _save_tasks(file,
                      Store(ResetIssue(data.issues, name, description, status)))
         /\ active_issue' = <<name>>
         /\ Return([op |-> "initialize_issue", kind |-> "ok", name |-> name,
                    status |-> status])
         /\ UNCHANGED disk

\* An update of the status that empties the tasks of the issue.
WithStatus_NoTasks(issue, status) ==
    [description |-> issue.description, status |-> status, tasks |-> << >>]

\* data["issues"][name]["status"] = status
WithStatus(issue, status) ==
    [description |-> issue.description, status |-> status, tasks |-> issue.tasks]

update_issue_status(name, status) ==
    LET data == _load_tasks(file) IN
    IF ~IsMapping(data) THEN Raised("update_issue_status")
    ELSE IF name \notin DOMAIN data.issues
    THEN Answer(IssueNotFound("update_issue_status", name))
    ELSE IF status \notin IssueStatus
    THEN Answer(InvalidStatus("update_issue_status", status))
    ELSE LET issue == data.issues[name] IN
         \E member \in Interpreters([n \in {name} |-> issue]) :
         /\ file' = _save_tasks(file,
                      Store(PutIssue(data.issues, name, WithStatus(issue, status))))
         /\ Return([op |-> "update_issue_status", kind |-> "ok", name |-> name,
                    old |-> FormatStatus(issue, member), new |-> status])
         /\ UNCHANGED <<disk, active_issue>>

(***************************************************************************)
(* Task tools.                                                             *)
(***************************************************************************)
\* add_task that stores the title and forgets the description.
NewTask_NoDescription(task_id, title, description) ==
    [id |-> task_id, title |-> title, description |-> "",
     status |-> TaskStatus_NEW]

\* The entry add_task stores under task_id.
NewTask(task_id, title, description) ==
    [id |-> task_id, title |-> title, description |-> description,
     status |-> TaskStatus_NEW]

\* A change of the tasks that also puts the issue back to the status New.
WithTasks_StatusNew(issue, tasks) ==
    [description |-> issue.description, status |-> IssueStatus_NEW,
     tasks |-> tasks]

\* data["issues"][active_issue]["tasks"] = tasks, the other fields kept.
WithTasks(issue, tasks) ==
    [issue EXCEPT !.tasks = tasks]

\* The values str(uuid.uuid4())[:8] can take when `tasks` are the tasks of
\* the issue: the id of any task already there (nothing in add_task
\* excludes it), or an id not in use.  Ids are opaque and only compared for
\* equality, so one id not in use stands for all of them: the first.
Uuid4(tasks) ==
    {tasks[i].id : i \in 1..Len(tasks)}
    \cup (IF Len(tasks) < NumTaskIds THEN {IdNames[Len(tasks) + 1]} ELSE {})

add_task(title, description) ==
    IF ~Truthy(active_issue) THEN Answer(NoActiveIssue("add_task"))
    ELSE
    LET data == _load_tasks(file)
        name == active_issue[1]
    IN
    IF ~IsMapping(data) THEN Raised("add_task")
    ELSE IF name \notin DOMAIN data.issues
    THEN Answer(IssueNotFound("add_task", name))
    ELSE LET issue == data.issues[name]
         IN
         \E task_id \in Uuid4(issue.tasks) :
         LET tasks == PutTask(issue.tasks, NewTask(task_id, title, description)) IN
         /\ file' = _save_tasks(file,
                      Store(PutIssue(data.issues, name, WithTasks(issue, tasks))))
         /\ Return([op |-> "add_task", kind |-> "ok", title |-> title,
                    task_id |-> task_id, name |-> name])
         /\ UNCHANGED <<disk, active_issue>>

\* The lines list_tasks appends for one task.
TaskLines(task) ==
    << [k |-> "ID", v |-> task.id],
       [k |-> "Title", v |-> task.title],
       [k |-> "Status", v |-> task.status] >>
    \o (IF task.description # ""
        THEN << [k |-> "Description", v |-> task.description] >>
        ELSE << >>)

\* list_tasks whose loop never skips a task.
RECURSIVE ListLoop_NoFilter(_, _)
ListLoop_NoFilter(tasks, status) ==
    IF tasks = << >> THEN << >>
    ELSE TaskLines(Head(tasks)) \o ListLoop_NoFilter(Tail(tasks), status)

\* The loop of list_tasks over issue_tasks.items(), status being the
\* optional filter: a falsy filter skips nothing.
RECURSIVE ListLoop(_, _)
ListLoop(tasks, status) ==
    IF tasks = << >> THEN << >>
    ELSE (IF Truthy(status) /\ Head(tasks).status # status[1]
          THEN << >>
          ELSE TaskLines(Head(tasks)))
         \o ListLoop(Tail(tasks), status)

\* The `result` list of list_tasks before the final test.
ListResult(name, issue, status) ==
    << [k |-> "Tasks for issue", v |-> name] >>
    \o (IF issue.description # ""
        THEN << [k |-> "Issue description", v |-> issue.description] >>
        ELSE << >>)
    \o ListLoop(issue.tasks, status)

\* The final test of list_tasks: only the header lines are there.
OnlyHeader(result, issue) ==
    Len(result) = 1 \/ (Len(result) = 2 /\ issue.description # "")

\* list_tasks without the validation of its filter.
FilterRejected_Never(status) ==
    FALSE

\* `if status and status not in [...]` of list_tasks.
FilterRejected(status) ==
    Truthy(status) /\ status[1] \notin TaskStatus

list_tasks(status) ==
    IF ~Truthy(active_issue) THEN Answer(NoActiveIssue("list_tasks"))
    ELSE
    LET data == _load_tasks(file)
        name == active_issue[1]
    IN
    IF ~IsMapping(data) THEN Raised("list_tasks")
    ELSE IF name \notin DOMAIN data.issues
    THEN Answer(IssueNotFound("list_tasks", name))
    ELSE LET issue == data.issues[name]
             result == ListResult(name, issue, status)
         IN
         IF Len(issue.tasks) = 0
         THEN Answer([op |-> "list_tasks", kind |-> "NoTasks", name |-> name])
         ELSE IF FilterRejected(status)
         THEN Answer(InvalidStatus("list_tasks", status[1]))
         ELSE IF OnlyHeader(result, issue)
         THEN Answer([op |-> "list_tasks", kind |-> "NoTasksFound",
                      status |-> IF Truthy(status) THEN status ELSE None])
         ELSE Answer([op |-> "list_tasks", kind |-> "ok", lines |-> result])

\* update_task_status that writes the status of the first task of the
\* issue instead of the task looked up.
SetTaskStatus_First(tasks, task_id, status) ==
    [tasks EXCEPT ![1].status = status]

\* issue_tasks[task_id]["status"] = status
SetTaskStatus(tasks, task_id, status) ==
    [tasks EXCEPT ![TaskIndex(tasks, task_id)].status = status]

\* update_task_status without the validation of the status.
UpdateCheck_NoValidation(tasks, name, task_id, status) ==
    IF ~HasTask(tasks, task_id)
    THEN << [op |-> "update_task_status", kind |-> "TaskNotFound",
             task_id |-> task_id, name |-> name] >>
    ELSE None

\* The two checks of update_task_status, in the order of the source:
\* the message they return, or None when both pass.
UpdateCheck(tasks, name, task_id, status) ==
    IF ~HasTask(tasks, task_id)
    THEN << [op |-> "update_task_status", kind |-> "TaskNotFound",
             task_id |-> task_id, name |-> name] >>
    ELSE IF status \notin TaskStatus
    THEN << InvalidStatus("update_task_status", status) >>
    ELSE None

update_task_status(task_id, status) ==
    IF ~Truthy(active_issue) THEN Answer(NoActiveIssue("update_task_status"))
    ELSE
    LET data == _load_tasks(file)
        name == active_issue[1]
    IN
    IF ~IsMapping(data) THEN Raised("update_task_status")
    ELSE IF name \notin DOMAIN data.issues
    THEN Answer(IssueNotFound("update_task_status", name))
    ELSE LET issue == data.issues[name]
             check == UpdateCheck(issue.tasks, name, task_id, status)
         IN
         IF check # None THEN Answer(check[1])
         ELSE LET old == GetTask(issue.tasks, task_id)
                  tasks == SetTaskStatus(issue.tasks, task_id, status)
              IN
              /\ file' = _save_tasks(file,
                           Store(PutIssue(data.issues, name, WithTasks(issue, tasks))))
              /\ Return([op |-> "update_task_status", kind |-> "ok",
                         title |-> old.title, task_id |-> task_id,
                         old |-> old.status, new |-> status])
              /\ UNCHANGED <<disk, active_issue>>

(***************************************************************************)
(* The session: BacklogContext(tasks_file) with active_issue = None, the   *)
(* tasks file not yet written, and the tools called one at a time.         *)
(***************************************************************************)
\* The server processes of SpecRace.
RaceProcs == {1, 2}

\* The handlers one process runs in SpecRace.
MaxRaceOps == 3

\* A process that is not inside a handler: its context's active_issue, the
\* number of handlers it has run and the message the latest one returned.
\* `overwrote` is history: the change another process saved between the
\* load and the save of that handler, if any.
Idle(active, ops, msg, overwrote) ==
    [pc |-> "idle", active |-> active, ops |-> ops, msg |-> msg,
     overwrote |-> overwrote]

Init ==
    /\ file = Missing
    /\ disk = "ok"
    /\ active_issue = None
    /\ last = [op |-> "start", kind |-> "ok"]
    /\ selected = FALSE
    /\ before = TaskCounts(Missing)
    /\ procs = [p \in RaceProcs |->
                 Idle(None, 0, [op |-> "start", kind |-> "ok"], None)]

Next ==
    \/ \E issue \in IssueTexts, status \in IssueStatusArgs :
         create_issue(issue[1], issue[2], status)
    \/ list_issues
    \/ \E name \in Names : select_issue(name)
    \/ \E issue \in IssueTexts, status \in IssueStatusArgs :
         initialize_issue(issue[1], issue[2], status)
    \/ \E text \in TaskTexts : add_task(text[1], text[2])
    \/ \E status \in FilterArgs : list_tasks(status)
    \/ \E task_id \in TaskIds, status \in StatusArgs :
         update_task_status(task_id, status)
    \/ \E name \in Names, status \in IssueStatusArgs :
         update_issue_status(name, status)

Spec == Init /\ [][Next]_vars

(***************************************************************************)
(* The environment of the service: the tasks file is an ordinary file that *)
(* other programs can remove or rewrite between two tool calls, and the    *)
(* disk can refuse a write.  `last` then names the event, so that a        *)
(* message in `last` is always the outcome of the latest step.             *)
(***************************************************************************)
Event(what) ==
    /\ last' = [op |-> what, kind |-> "event"]
    /\ before' = TaskCounts(file)
    /\ UNCHANGED <<active_issue, selected, procs>>

\* The file is removed, or overwritten with text that is not JSON, with
\* the document {"issues": null} or with the JSON string "issues".
replace_file(content) ==
    /\ file # content
    /\ file' = content
    /\ Event("replace_file")
    /\ UNCHANGED disk

\* An editor deletes one issue from the document.
delete_issue(name) ==
    /\ file.kind = "store"
    /\ name \in DOMAIN file.issues
    /\ file' = Store([n \in (DOMAIN file.issues) \ {name} |-> file.issues[n]])
    /\ Event("delete_issue")
    /\ UNCHANGED disk

\* A document written before issues had a status: the field is absent.
strip_status(name) ==
    /\ file.kind = "store"
    /\ name \in DOMAIN file.issues
    /\ "status" \in DOMAIN file.issues[name]
    /\ file' = Store(PutIssue(file.issues, name,
                       [description |-> file.issues[name].description,
                        tasks |-> file.issues[name].tasks]))
    /\ Event("strip_status")
    /\ UNCHANGED disk

\* The disk starts or stops refusing writes.
set_disk(condition) ==
    /\ disk # condition
    /\ disk' = condition
    /\ Event("set_disk")
    /\ UNCHANGED file

Environment ==
    \/ \E content \in {Missing, Garbage, NullIssues, NotAStore} :
         replace_file(content)
    \/ \E name \in Names : delete_issue(name)
    \/ \E name \in Names : strip_status(name)
    \/ \E condition \in {"ok", "denied", "full"} : set_disk(condition)

NextEnv ==
    \/ Next
    \/ Environment

\* The service with its environment.
SpecEnv == Init /\ [][NextEnv]_vars

(***************************************************************************)
(* Several server processes on one tasks file (TASKS_FILE names the same   *)
(* path for each).  Every process has its own BacklogContext.  Inside one  *)
(* process a handler runs from its first line to its return without an     *)
(* await, so handlers of one process follow one another; handlers of       *)
(* different processes interleave between _load_tasks and _save_tasks.     *)
(* A handler that reaches its save is two steps: the load, the checks and  *)
(* the change of the loaded dict, then the save, the assignment of         *)
(* active_issue and the return.  A save is one step here: saves of         *)
(* different processes follow one another.                                 *)
(***************************************************************************)
\* Issue names and the description and status create_issue is called with
\* in SpecRace.
RaceNames == {"A", "B"}

RaceDescription == ""

\* The <<title, description>> add_task is called with in SpecRace.
RaceTexts == {<<"T", "d">>}

\* Process p is not inside a handler and starts one.
Starts(p) ==
    procs[p].pc = "idle" /\ procs[p].ops < MaxRaceOps

\* The change a handler makes to the dict it loaded.
Mutated(data, change) ==
    IF change.op = "create_issue"
    THEN Store(PutIssue(data.issues, change.name,
                        NewIssue(change.description, change.status)))
    ELSE LET issue == data.issues[change.name] IN
         Store(PutIssue(data.issues, change.name,
                        WithTasks(issue, PutTask(issue.tasks, change.task))))

\* The message the handler returns after its save.
Success(change) ==
    IF change.op = "create_issue"
    THEN [op |-> "create_issue", kind |-> "ok", name |-> change.name,
          status |-> change.status]
    ELSE [op |-> "add_task", kind |-> "ok", title |-> change.task.title,
          task_id |-> change.task.id, name |-> change.name]

\* A handler between its load and its save: `base` is the dict
\* _load_tasks returned, `change` what the handler does to it, `lost` the
\* change another process has saved since the load, if any.
Loaded(active, ops, base, change) ==
    [pc |-> "loaded", active |-> active, ops |-> ops, base |-> base,
     change |-> change, lost |-> None]

\* The handler of process p returns msg without a save.
ReturnIn(p, msg) ==
    /\ procs' = [procs EXCEPT ![p] =
                   Idle(procs[p].active, procs[p].ops + 1, msg, None)]
    /\ UNCHANGED <<file, disk, active_issue, last, selected, before>>

\* create_issue of process p up to the line before _save_tasks.
create_issue_load(p, name, description, status) ==
    /\ Starts(p)
    /\ LET data == _load_tasks(file) IN
       IF ~IsMapping(data)
       THEN ReturnIn(p, [op |-> "create_issue", kind |-> "Exception"])
       ELSE IF CreateCheck(data.issues, name, status) # None
       THEN ReturnIn(p, CreateCheck(data.issues, name, status)[1])
       ELSE /\ procs' = [procs EXCEPT ![p] =
                           Loaded(procs[p].active, procs[p].ops + 1, data,
                                  [op |-> "create_issue", name |-> name,
                                   description |-> description,
                                   status |-> status])]
            /\ UNCHANGED <<file, disk, active_issue, last, selected, before>>

\* select_issue of process p: it has no save and is one step.
select_issue_in(p, name) ==
    /\ Starts(p)
    /\ LET data == _load_tasks(file) IN
       IF ~IsMapping(data)
       THEN ReturnIn(p, [op |-> "select_issue", kind |-> "Exception"])
       ELSE IF name \notin DOMAIN data.issues
       THEN ReturnIn(p, IssueNotFound("select_issue", name))
       ELSE /\ procs' = [procs EXCEPT ![p] =
                           Idle(<<name>>, procs[p].ops + 1,
                                [op |-> "select_issue", kind |-> "ok",
                                 name |-> name], None)]
            /\ UNCHANGED <<file, disk, active_issue, last, selected, before>>

\* add_task of process p up to the line before _save_tasks; task_id is
\* the value of str(uuid.uuid4())[:8], any id.
add_task_load(p, title, description, task_id) ==
    /\ Starts(p)
    /\ IF ~Truthy(procs[p].active) THEN ReturnIn(p, NoActiveIssue("add_task"))
       ELSE
       LET data == _load_tasks(file)
           name == procs[p].active[1]
       IN
       IF ~IsMapping(data)
       THEN ReturnIn(p, [op |-> "add_task", kind |-> "Exception"])
       ELSE IF name \notin DOMAIN data.issues
       THEN ReturnIn(p, IssueNotFound("add_task", name))
       ELSE /\ procs' = [procs EXCEPT ![p] =
                           Loaded(procs[p].active, procs[p].ops + 1, data,
                                  [op |-> "add_task", name |-> name,
                                   task |-> NewTask(task_id, title,
                                                    description)])]
            /\ UNCHANGED <<file, disk, active_issue, last, selected, before>>

\* A save that loads the file again and applies the change to what is
\* there now.
Pending_Reloaded(p) ==
    Mutated(_load_tasks(file), procs[p].change)

\* The dict process p passes to _save_tasks: the one it loaded, changed.
Pending(p) ==
    Mutated(procs[p].base, procs[p].change)

\* The rest of the handler of process p: _save_tasks, the assignment of
\* active_issue (create_issue) and the return.  Every other process that
\* is between its load and its save has from now on a stale dict.
save_and_return(p) ==
    /\ procs[p].pc = "loaded"
    /\ file' = _save_tasks(file, Pending(p))
    /\ procs' = [q \in RaceProcs |->
                   IF q = p
                   THEN Idle(IF procs[p].change.op = "create_issue"
                             THEN <<procs[p].change.name>>
                             ELSE procs[p].active,
                             procs[p].ops, Success(procs[p].change),
                             procs[p].lost)
                   ELSE IF procs[q].pc = "loaded"
                   THEN [procs[q] EXCEPT !.lost = <<procs[p].change>>]
                   ELSE procs[q]]
    /\ UNCHANGED <<disk, active_issue, last, selected, before>>

NextRace ==
    \/ \E p \in RaceProcs, name \in RaceNames :
         create_issue_load(p, name, RaceDescription, IssueStatus_NEW)
    \/ \E p \in RaceProcs, name \in RaceNames : select_issue_in(p, name)
    \/ \E p \in RaceProcs, text \in RaceTexts, task_id \in TaskIds :
         add_task_load(p, text[1], text[2], task_id)
    \/ \E p \in RaceProcs : save_and_return(p)

SpecRace == Init /\ [][NextRace]_vars

(***************************************************************************)
(* Properties.                                                             *)
(***************************************************************************)
TaskOps == {"add_task", "list_tasks", "update_task_status"}

\* C1: a task tool returns the NoActiveIssue message exactly when no
\* create_issue, initialize_issue or select_issue has succeeded earlier in
\* the session.
C1_NoActiveIssueIffNeverSelected ==
    last.op \in TaskOps => ((last.kind = "NoActiveIssue") <=> ~selected)

\* C2: create_issue on a name that is a key of the loaded store returns
\* AlreadyExists for every description and status, and the file is left
\* as it was.
C2_CreateExistingFails ==
    [][last'.op = "create_issue" =>
       \A issue \in IssueTexts, status \in IssueStatusArgs :
         (/\ issue[1] \in DOMAIN Issues(file)
          /\ create_issue(issue[1], issue[2], status))
         => /\ last' = [op |-> "create_issue", kind |-> "AlreadyExists",
                        name |-> issue[1]]
            /\ file' = file
            /\ active_issue' = active_issue]_vars

\* C2's case: create_issue has just been refused on an issue that has
\* tasks, while another issue is the active one.
C2_Witness ==
    /\ last.op = "create_issue"
    /\ last.kind = "AlreadyExists"
    /\ Issues(file)[last.name].tasks # << >>
    /\ active_issue # <<last.name>>

\* C3: initialize_issue with a valid status succeeds whether or not the
\* name exists; afterwards the store maps the name to the given
\* description and status with no tasks, every other issue is as before,
\* and the name is the active issue.
C3_InitializeResets ==
    [][last'.op = "initialize_issue" =>
       \A issue \in IssueTexts, status \in IssueStatus :
         initialize_issue(issue[1], issue[2], status)
         => /\ last' = [op |-> "initialize_issue", kind |-> "ok",
                        name |-> issue[1], status |-> status]
            /\ file'.kind = "store"
            /\ DOMAIN file'.issues = (DOMAIN Issues(file)) \cup {issue[1]}
            /\ file'.issues[issue[1]] = [description |-> issue[2],
                                         status |-> status, tasks |-> << >>]
            /\ \A n \in (DOMAIN Issues(file)) \ {issue[1]} :
                 file'.issues[n] = Issues(file)[n]
            /\ active_issue' = <<issue[1]>>]_vars

\* C3's case: initialize_issue has just reset an issue that had tasks, and
\* the store holds another issue.
C3_Witness ==
    /\ last.op = "initialize_issue"
    /\ last.kind = "ok"
    /\ last.name \in DOMAIN before
    /\ before[last.name] > 0
    /\ Len(Issues(file)[last.name].tasks) = 0
    /\ DOMAIN Issues(file) # {last.name}

\* The tasks of the active issue in the document f (none when there is no
\* such issue).
ActiveTasks(f, active) ==
    IF active # None /\ active[1] \in DOMAIN Issues(f)
    THEN Issues(f)[active[1]].tasks
    ELSE << >>

\* C4: every successful add_task uses an id that is not yet a key of the
\* active issue's tasks: the task count grows by one and every task that
\* was there is unchanged.
C4_AddTaskUsesFreshId ==
    [][(last'.op = "add_task" /\ last'.kind = "ok") =>
       LET old == ActiveTasks(file, active_issue)
           new == ActiveTasks(file', active_issue')
       IN /\ ~HasTask(old, last'.task_id)
          /\ Len(new) = Len(old) + 1
          /\ \A i \in 1..Len(old) : new[i] = old[i]]_vars

\* C5: update_task_status with an active issue that is in the store
\* returns NotFound (task) when task_id is not a key of its tasks and
\* InvalidStatus when the status is not one of the three values; in both
\* cases the file and active_issue are left as they were.
C5_UpdateFailures ==
    [][last'.op = "update_task_status" =>
       \A task_id \in TaskIds, status \in StatusArgs :
         (/\ active_issue # None
          /\ active_issue[1] \in DOMAIN Issues(file)
          /\ update_task_status(task_id, status))
         => /\ ~HasTask(ActiveTasks(file, active_issue), task_id)
                 => last'.kind = "TaskNotFound"
            /\ status \notin TaskStatus => last'.kind = "InvalidStatus"
            /\ last'.kind \in {"TaskNotFound", "InvalidStatus"}
                 => file' = file /\ active_issue' = active_issue]_vars

\* What the source does in C5's case when the active issue has a non-empty
\* name: the task lookup comes first, the status is validated only for a
\* task that exists, and neither failure writes anything.
C5_LookupBeforeValidation ==
    [][last'.op = "update_task_status" =>
       \A task_id \in TaskIds, status \in StatusArgs :
         (/\ Truthy(active_issue)
          /\ active_issue[1] \in DOMAIN Issues(file)
          /\ update_task_status(task_id, status))
         => /\ ~HasTask(ActiveTasks(file, active_issue), task_id)
                 => last'.kind = "TaskNotFound"
            /\ (HasTask(ActiveTasks(file, active_issue), task_id)
                /\ status \notin TaskStatus) => last'.kind = "InvalidStatus"
            /\ last'.kind \in {"TaskNotFound", "InvalidStatus"}
                 => file' = file /\ active_issue' = active_issue]_vars

\* The lines of a listing show the task: its ID, Title and Status lines in
\* a row, followed by its Description line exactly when the description is
\* not empty.
Shows(lines, task) ==
    \E i \in 1..Len(lines) :
      /\ lines[i] = [k |-> "ID", v |-> task.id]
      /\ i + 2 <= Len(lines)
      /\ lines[i + 1] = [k |-> "Title", v |-> task.title]
      /\ lines[i + 2] = [k |-> "Status", v |-> task.status]
      /\ IF task.description # ""
         THEN /\ i + 3 <= Len(lines)
              /\ lines[i + 3] = [k |-> "Description", v |-> task.description]
         ELSE i + 3 <= Len(lines) => lines[i + 3].k = "ID"

\* C6: after a successful add_task(title, description) the store holds,
\* under the reported id, the task {title, description, New}, and a
\* list_tasks() without filter that follows immediately shows that id
\* with that title, that description and the status New.
C6_AddTaskRoundTrip ==
    [][/\ last'.op = "add_task" =>
            \A text \in TaskTexts :
              (add_task(text[1], text[2]) /\ last'.kind = "ok")
              => /\ last'.title = text[1]
                 /\ HasTask(ActiveTasks(file', active_issue'), last'.task_id)
                 /\ GetTask(ActiveTasks(file', active_issue'), last'.task_id)
                      = [id |-> last'.task_id, title |-> text[1],
                         description |-> text[2], status |-> "New"]
       /\ (last.op = "add_task" /\ last.kind = "ok" /\ list_tasks(None))
            => /\ last'.kind = "ok"
               /\ \E task \in {GetTask(ActiveTasks(file, active_issue),
                                       last.task_id)} :
                    /\ task.title = last.title
                    /\ task.status = "New"
                    /\ Shows(last'.lines, task)]_vars

\* C6's case: add_task has just stored a task with a title and a
\* description as the second task of the issue.
C6_Witness ==
    /\ last.op = "add_task"
    /\ last.kind = "ok"
    /\ Len(ActiveTasks(file, active_issue)) = 2
    /\ GetTask(ActiveTasks(file, active_issue), last.task_id).description = "d"
    /\ ActiveTasks(file, active_issue)[2].id = last.task_id

\* C7: update_task_status on a task that exists in the active issue
\* succeeds for every stored status and every one of the three values,
\* stores the value and reports the previous status and the new one.
C7_UpdateAnyToAny ==
    [][last'.op = "update_task_status" =>
       LET tasks == ActiveTasks(file, active_issue) IN
       \A i \in 1..Len(tasks), status \in TaskStatus :
         update_task_status(tasks[i].id, status)
         => /\ last' = [op |-> "update_task_status", kind |-> "ok",
                        title |-> tasks[i].title, task_id |-> tasks[i].id,
                        old |-> tasks[i].status, new |-> status]
            /\ HasTask(ActiveTasks(file', active_issue'), tasks[i].id)
            /\ GetTask(ActiveTasks(file', active_issue'), tasks[i].id).status
                 = status]_vars

\* C7's case: the second task of an issue has just been moved back from
\* Done to New.
C7_Witness ==
    /\ last.op = "update_task_status"
    /\ last.kind = "ok"
    /\ last.old = "Done"
    /\ last.new = "New"
    /\ Len(ActiveTasks(file, active_issue)) = 2
    /\ ActiveTasks(file, active_issue)[2].id = last.task_id
    /\ ActiveTasks(file, active_issue)[2].status = "New"

\* The tasks a filter keeps, in the order of the task mapping: all of them
\* for no filter, otherwise those whose stored status is the filter.
RECURSIVE Matching(_, _)
Matching(tasks, filter) ==
    IF tasks = << >> THEN << >>
    ELSE IF filter = None \/ Head(tasks).status = filter[1]
         THEN <<Head(tasks)>> \o Matching(Tail(tasks), filter)
         ELSE Matching(Tail(tasks), filter)

\* The ids on the ID lines of a listing, in order.
RECURSIVE ShownIds(_)
ShownIds(lines) ==
    IF lines = << >> THEN << >>
    ELSE IF Head(lines).k = "ID"
         THEN <<Head(lines).v>> \o ShownIds(Tail(lines))
         ELSE ShownIds(Tail(lines))

\* The filters C8 is about: none, or one of the three values.
ValidFilters == {None} \cup {<<s>> : s \in TaskStatus}

\* C8: on an active issue with at least one task, list_tasks lists exactly
\* the tasks whose stored status equals the filter (all tasks without a
\* filter), in insertion order, each with its own lines; when there is no
\* such task it returns the 'no tasks found' message and never a header
\* alone.  After update_task_status(id, InWork), list_tasks(InWork) shows
\* id and list_tasks(Done) does not.
C8_ListMatchesFilter ==
    [][/\ last'.op = "list_tasks" =>
            \A filter \in ValidFilters :
              (/\ ActiveTasks(file, active_issue) # << >>
               /\ list_tasks(filter))
              => LET keep == Matching(ActiveTasks(file, active_issue), filter) IN
                 IF keep = << >>
                 THEN last'.kind = "NoTasksFound"
                 ELSE /\ last'.kind = "ok"
                      /\ ShownIds(last'.lines) = [i \in 1..Len(keep) |-> keep[i].id]
                      /\ \A i \in 1..Len(keep) : Shows(last'.lines, keep[i])
       /\ (/\ last.op = "update_task_status" /\ last.kind = "ok"
           /\ last.new = "InWork"
           /\ list_tasks(<<"InWork">>))
            => /\ last'.kind = "ok"
               /\ \E i \in 1..Len(ShownIds(last'.lines)) :
                    ShownIds(last'.lines)[i] = last.task_id
       /\ (/\ last.op = "update_task_status" /\ last.kind = "ok"
           /\ last.new = "InWork"
           /\ list_tasks(<<"Done">>))
            => \/ last'.kind = "NoTasksFound"
               \/ /\ last'.kind = "ok"
                  /\ \A i \in 1..Len(ShownIds(last'.lines)) :
                       ShownIds(last'.lines)[i] # last.task_id]_vars

\* C8's case: a listing of an issue with two tasks that shows only the
\* second one, so the filter has dropped the first.
C8_Witness ==
    /\ last.op = "list_tasks"
    /\ last.kind = "ok"
    /\ Len(ActiveTasks(file, active_issue)) = 2
    /\ ShownIds(last.lines) = <<ActiveTasks(file, active_issue)[2].id>>

\* C9: on an active issue with at least one task, list_tasks with a filter
\* that is given and is not one of the three values returns InvalidStatus.
C9_EveryGivenFilterValidated ==
    [][last'.op = "list_tasks" =>
       \A filter \in FilterArgs :
         (/\ ActiveTasks(file, active_issue) # << >>
          /\ filter # None
          /\ filter[1] \notin TaskStatus
          /\ list_tasks(filter))
         => last' = InvalidStatus("list_tasks", filter[1])]_vars

\* C9 as amended: a filter that is a non-empty string and not one of the
\* three values returns InvalidStatus; the empty string is taken as no
\* filter and the listing is the one list_tasks() returns.
C9_NonEmptyFilterValidated ==
    [][last'.op = "list_tasks" =>
       \A filter \in FilterArgs :
         (/\ ActiveTasks(file, active_issue) # << >>
          /\ filter # None
          /\ filter[1] \notin TaskStatus
          /\ list_tasks(filter))
         => IF filter[1] # ""
            THEN /\ last' = InvalidStatus("list_tasks", filter[1])
                 /\ file' = file
            ELSE /\ last'.kind = "ok"
                 /\ Len(ShownIds(last'.lines))
                      = Len(ActiveTasks(file, active_issue))
                 /\ list_tasks(None)]_vars

\* C9's case: list_tasks has just refused a filter on an issue that has
\* tasks.
C9_Witness ==
    /\ last.op = "list_tasks"
    /\ last.kind = "InvalidStatus"
    /\ last.status = "Bad"
    /\ ActiveTasks(file, active_issue) # << >>

\* C10: when active_issue is set and its name is not a key of the loaded
\* store, each task tool returns NotFound (issue), and the file and
\* active_issue are left as they were.
C10_StaleActiveIssueNotFound ==
    [][(/\ last'.op \in TaskOps
        /\ active_issue # None
        /\ active_issue[1] \notin DOMAIN Issues(file))
       => /\ last' = IssueNotFound(last'.op, active_issue[1])
          /\ file' = file
          /\ active_issue' = active_issue]_vars

\* What the source does in C10's case when the name is not empty and the
\* loaded "issues" is a mapping: the issue is reported as not found and
\* nothing is written.
C10_NonEmptyNameNotFound ==
    [][(/\ last'.op \in TaskOps
        /\ Truthy(active_issue)
        /\ IsMapping(_load_tasks(file))
        /\ active_issue[1] \notin DOMAIN Issues(file))
       => /\ last' = IssueNotFound(last'.op, active_issue[1])
          /\ file' = file
          /\ active_issue' = active_issue]_vars

\* C10's other case: the name is not empty and the file holds
\* {"issues": null}; the handler's own `except` answers.
C10_NullIssuesRaises ==
    [][(/\ last'.op \in TaskOps
        /\ Truthy(active_issue)
        /\ file = NullIssues)
       => /\ last' = [op |-> last'.op, kind |-> "Exception"]
          /\ file' = file
          /\ active_issue' = active_issue]_vars

\* C11: create_issue with a name that is not in the store and one of the
\* three status values stores {description, status, no tasks} under the
\* name, leaves every other issue as it was and makes the name the active
\* issue; a list_issues that follows shows the name, marked active, with
\* 0 tasks.  With another status it returns InvalidStatus and neither the
\* file nor active_issue changes.
C11_CreateNewIssue ==
    [][/\ last'.op = "create_issue" =>
            \A issue \in IssueTexts, status \in IssueStatusArgs :
              (/\ issue[1] \notin DOMAIN Issues(file)
               /\ create_issue(issue[1], issue[2], status))
              => IF status \in IssueStatus
                 THEN /\ last' = [op |-> "create_issue", kind |-> "ok",
                                  name |-> issue[1], status |-> status]
                      /\ file'.kind = "store"
                      /\ DOMAIN file'.issues = (DOMAIN Issues(file)) \cup {issue[1]}
                      /\ file'.issues[issue[1]] = [description |-> issue[2],
                                                   status |-> status,
                                                   tasks |-> << >>]
                      /\ \A n \in DOMAIN Issues(file) :
                           file'.issues[n] = Issues(file)[n]
                      /\ active_issue' = <<issue[1]>>
                 ELSE /\ last' = InvalidStatus("create_issue", status)
                      /\ file' = file
                      /\ active_issue' = active_issue
       /\ (last.op = "create_issue" /\ last.kind = "ok" /\ list_issues)
            => /\ last'.kind = "ok"
               /\ \E line \in last'.lines :
                    /\ line.name = last.name
                    /\ line.active
                    /\ line.tasks = 0
                    /\ line.status = last.status
               /\ \A line \in last'.lines :
                    line.name # last.name => ~line.active]_vars

\* C11's case: create_issue has just stored an issue with the status Done
\* next to an issue that has tasks.
C11_Witness ==
    /\ last.op = "create_issue"
    /\ last.kind = "ok"
    /\ last.status = "Done"
    /\ active_issue = <<last.name>>
    /\ \E n \in DOMAIN Issues(file) : Issues(file)[n].tasks # << >>

\* C12: select_issue never changes the file; a name that is not a key of
\* the store returns NotFound and active_issue keeps its value, a name that
\* is a key becomes the active issue.
C12_SelectNeverWrites ==
    [][last'.op = "select_issue" =>
       \A name \in Names :
         select_issue(name)
         => /\ file' = file
            /\ IF name \in DOMAIN Issues(file)
               THEN /\ last' = [op |-> "select_issue", kind |-> "ok",
                                name |-> name]
                    /\ active_issue' = <<name>>
               ELSE /\ last' = IssueNotFound("select_issue", name)
                    /\ active_issue' = active_issue]_vars

\* C12's case: select_issue has just been refused while another issue is
\* the active one, and that issue still is.
C12_Witness ==
    /\ last.op = "select_issue"
    /\ last.kind = "IssueNotFound"
    /\ active_issue # None
    /\ active_issue[1] \in DOMAIN Issues(file)
    /\ last.name \notin DOMAIN Issues(file)

\* C13: update_issue_status never changes active_issue and its outcome is
\* a function of the store and its arguments alone: NotFound for a name
\* that is not in the store, InvalidStatus for a name that is and a status
\* that is not one of the three values, both without a write; otherwise
\* the status of that issue is replaced, its description and tasks and
\* every other issue are as before, and the message reports the old and
\* the new status.
C13_UpdateIssueStatus ==
    [][last'.op = "update_issue_status" =>
       \A name \in Names, status \in IssueStatusArgs :
         update_issue_status(name, status)
         => /\ active_issue' = active_issue
            /\ IF name \notin DOMAIN Issues(file)
               THEN /\ last' = IssueNotFound("update_issue_status", name)
                    /\ file' = file
               ELSE IF status \notin IssueStatus
               THEN /\ last' = InvalidStatus("update_issue_status", status)
                    /\ file' = file
               ELSE /\ last' = [op |-> "update_issue_status", kind |-> "ok",
                                name |-> name,
                                old |-> Issues(file)[name].status,
                                new |-> status]
                    /\ file'.kind = "store"
                    /\ DOMAIN file'.issues = DOMAIN Issues(file)
                    /\ file'.issues[name]
                         = [description |-> Issues(file)[name].description,
                            status |-> status,
                            tasks |-> Issues(file)[name].tasks]
                    /\ \A n \in (DOMAIN Issues(file)) \ {name} :
                         file'.issues[n] = Issues(file)[n]]_vars

\* C13's case: the status of an issue that has tasks and is not the active
\* issue has just been moved from New to Done.
C13_Witness ==
    /\ last.op = "update_issue_status"
    /\ last.kind = "ok"
    /\ last.old = "New"
    /\ last.new = "Done"
    /\ active_issue # <<last.name>>
    /\ active_issue # None
    /\ Issues(file)[last.name].tasks # << >>

\* The key a change writes is in the document f: the issue name for
\* create_issue, the task id under the issue for add_task.
KeyPresent(f, change) ==
    /\ change.name \in DOMAIN Issues(f)
    /\ change.op = "add_task"
         => HasTask(Issues(f)[change.name].tasks, change.task.id)

\* Two changes write the same key.
SameKey(c, d) ==
    /\ c.op = d.op
    /\ c.name = d.name
    /\ c.op = "add_task" => c.task.id = d.task.id

\* C14: every handler that reaches its save returns its success message,
\* and when another process has saved since the handler's load, the file
\* after the save is what the handler loaded with its own change only:
\* the key the earlier save wrote is gone, unless the later handler writes
\* the same key or had loaded it already.
C14_LostUpdate ==
    [][\A p \in RaceProcs :
         (procs[p].pc = "loaded" /\ save_and_return(p))
         => /\ procs'[p].msg = Success(procs[p].change)
            /\ procs[p].lost # None
                 => /\ file' = Mutated(procs[p].base, procs[p].change)
                    /\ KeyPresent(file', procs[p].change)
                    /\ KeyPresent(file', procs[p].lost[1])
                         => \/ KeyPresent(procs[p].base, procs[p].lost[1])
                            \/ SameKey(procs[p].lost[1], procs[p].change)]_vars

\* C14's case: both processes have been told that their handler succeeded,
\* one that it created an issue and the other that it added a task to
\* another issue, and the issue the first one created is not in the file.
C14_Witness ==
    \E p \in RaceProcs, q \in RaceProcs :
      /\ p # q
      /\ procs[p].pc = "idle"
      /\ procs[q].pc = "idle"
      /\ procs[p].msg.op = "add_task"
      /\ procs[p].msg.kind = "ok"
      /\ procs[p].overwrote # None
      /\ procs[q].msg = Success(procs[p].overwrote[1])
      /\ procs[q].msg.op = "create_issue"
      /\ procs[q].msg.name \notin DOMAIN Issues(file)
      /\ KeyPresent(file, [op |-> "add_task", name |-> procs[p].msg.name,
                           task |-> [id |-> procs[p].msg.task_id]])

\* C15: every stored issue has a status that is one of New, InWork, Done,
\* every stored task has one too, and the task add_task has just stored
\* has the status New.
C15_StatusInvariant ==
    /\ \A n \in DOMAIN Issues(file) :
         /\ "status" \in DOMAIN Issues(file)[n]
         /\ Issues(file)[n].status \in IssueStatus
         /\ \A i \in 1..Len(Issues(file)[n].tasks) :
              Issues(file)[n].tasks[i].status \in TaskStatus
    /\ (last.op = "add_task" /\ last.kind = "ok")
         => /\ HasTask(ActiveTasks(file, active_issue), last.task_id)
            /\ GetTask(ActiveTasks(file, active_issue), last.task_id).status
                 = "New"

\* C15's case: update_task_status has just been called with a status that
\* is none of the three values, on an issue whose status and whose tasks'
\* statuses have been changed before.
C15_Witness ==
    /\ last.op = "update_task_status"
    /\ last.kind = "InvalidStatus"
    /\ last.status = "Bad"
    /\ Issues(file)[active_issue[1]].status = "Done"
    /\ Len(ActiveTasks(file, active_issue)) = 2
    /\ ActiveTasks(file, active_issue)[1].status = "InWork"
    /\ ActiveTasks(file, active_issue)[2].status = "Done"

\* C16: every key of the stored issues is a non-empty string and every
\* stored task has a non-empty title.
C16_NonEmptyIdentity ==
    /\ "" \notin DOMAIN Issues(file)
    /\ \A n \in DOMAIN Issues(file) :
         \A i \in 1..Len(Issues(file)[n].tasks) :
           Issues(file)[n].tasks[i].title # ""

\* What the source keeps of C16: a stored task's issue is stored under the
\* name that was active when the task was added, and that name is never
\* the empty string (add_task refuses a falsy active_issue).
C16_TasksOnlyUnderNonEmptyNames ==
    "" \in DOMAIN Issues(file) => Issues(file)[""].tasks = << >>

\* C17: whatever the file holds, _load_tasks returns a dict whose "issues"
\* is a mapping.
C17_LoadYieldsMapping ==
    IsMapping(_load_tasks(file))

\* What the source does in C17's cases: a missing file and text that does
\* not parse load as the empty store.
C17_MissingOrGarbageLoadsEmpty ==
    file \in {Missing, Garbage} => _load_tasks(file) = Store(NoIssues)

\* What a save that fails leaves in the file: the file as it was when the
\* open is refused, text that does not parse when the write breaks off.
Unsaved ==
    file' = (IF disk = "denied" THEN file ELSE Garbage)

\* C18: while the disk refuses writes, each of the five writing tools
\* still returns its success message whenever its checks pass,
\* create_issue and initialize_issue still make the name the active issue,
\* and the change is not in the file; a task tool called right after such
\* a create_issue returns NotFound for the issue.
C18_SaveFailureNotSurfaced ==
    [][disk # "ok" =>
       /\ last'.op = "create_issue" =>
            \A issue \in IssueTexts, status \in IssueStatus :
              (/\ IsMapping(_load_tasks(file))
               /\ issue[1] \notin DOMAIN Issues(file)
               /\ create_issue(issue[1], issue[2], status))
              => /\ last' = [op |-> "create_issue", kind |-> "ok",
                             name |-> issue[1], status |-> status]
                 /\ active_issue' = <<issue[1]>>
                 /\ Unsaved
                 /\ issue[1] \notin DOMAIN Issues(file')
       /\ last'.op = "initialize_issue" =>
            \A issue \in IssueTexts, status \in IssueStatus :
              (/\ IsMapping(_load_tasks(file))
               /\ initialize_issue(issue[1], issue[2], status))
              => /\ last' = [op |-> "initialize_issue", kind |-> "ok",
                             name |-> issue[1], status |-> status]
                 /\ active_issue' = <<issue[1]>>
                 /\ Unsaved
       /\ last'.op = "add_task" =>
            \A text \in TaskTexts :
              (/\ Truthy(active_issue)
               /\ active_issue[1] \in DOMAIN Issues(file)
               /\ add_task(text[1], text[2]))
              => /\ last'.kind = "ok"
                 /\ last'.title = text[1]
                 /\ Unsaved
       /\ last'.op = "update_task_status" =>
            LET tasks == ActiveTasks(file, active_issue) IN
            \A i \in 1..Len(tasks), status \in TaskStatus :
              update_task_status(tasks[i].id, status)
              => /\ last'.kind = "ok"
                 /\ last'.task_id = tasks[i].id
                 /\ last'.new = status
                 /\ Unsaved
       /\ last'.op = "update_issue_status" =>
            \A name \in DOMAIN Issues(file), status \in IssueStatus :
              update_issue_status(name, status)
              => /\ last'.kind = "ok"
                 /\ last'.name = name
                 /\ last'.new = status
                 /\ Unsaved
       /\ (/\ last.op = "create_issue"
           /\ last.kind = "ok"
           /\ Truthy(active_issue)
           /\ last.name \notin DOMAIN Issues(file)
           /\ last'.op \in TaskOps)
            => last' = IssueNotFound(last'.op, last.name)]_vars

\* C18's case: create_issue has just reported an issue as created and made
\* it the active issue while the disk refused the write, and the issue is
\* not in the file.
C18_Witness ==
    /\ last.op = "create_issue"
    /\ last.kind = "ok"
    /\ disk = "denied"
    /\ active_issue = <<last.name>>
    /\ Truthy(active_issue)
    /\ file.kind = "store"
    /\ last.name \notin DOMAIN Issues(file)

\* C20: list_issues and list_tasks leave the file and active_issue as they
\* were, whatever the file holds and whatever the filter, and a line of
\* list_issues for an issue without a status field shows the status New.
C20_ListsReadOnly ==
    [][last'.op \in {"list_issues", "list_tasks"} =>
       /\ file' = file
       /\ active_issue' = active_issue
       /\ (last'.op = "list_issues" /\ last'.kind = "ok")
            => \A line \in last'.lines :
                 "status" \notin DOMAIN Issues(file)[line.name]
                   => line.status = "New"]_vars

\* What the source keeps of C20: the two listing tools write nothing and
\* do not touch active_issue, and a listed issue that has a status field
\* is shown with it.
C20_ListsChangeNothing ==
    [][last'.op \in {"list_issues", "list_tasks"} =>
       /\ file' = file
       /\ active_issue' = active_issue
       /\ (last'.op = "list_issues" /\ last'.kind = "ok")
            => \A line \in last'.lines :
                 IF "status" \in DOMAIN Issues(file)[line.name]
                 THEN line.status = Issues(file)[line.name].status
                 ELSE line.status \in FormatMember]_vars

\* C21: with the tools called one at a time, saves that succeed and a file
\* nothing else writes, no step removes an issue name from the store, and
\* after every step active_issue is None or names an issue of the store.
C21_NamesKeptActivePresent ==
    [][/\ DOMAIN Issues(file) \subseteq DOMAIN Issues(file')
       /\ active_issue # None => active_issue[1] \in DOMAIN Issues(file)
       /\ active_issue' # None => active_issue'[1] \in DOMAIN Issues(file')]_vars

\* C21's case: initialize_issue has just been called on a name that was in
\* the store; the store held two issues before the call and holds the
\* same two after it, and the name is the active issue.
C21_Witness ==
    /\ last.op = "initialize_issue"
    /\ last.kind = "ok"
    /\ last.name \in DOMAIN before
    /\ active_issue = <<last.name>>
    /\ Cardinality(DOMAIN Issues(file)) = 2
    /\ DOMAIN before = DOMAIN Issues(file)

\* C22: add_task and update_task_status never change active_issue; when
\* they fail they write nothing; when they succeed the store has the same
\* issue names, every issue but the active one is as before, and the
\* active issue keeps its description and status.  A successful
\* update_task_status keeps the ids, their order, and the title and
\* description of every task, and the status of every task but the one it
\* reports.
C22_TaskToolsFrame ==
    [][last'.op \in {"add_task", "update_task_status"} =>
       /\ active_issue' = active_issue
       /\ IF last'.kind # "ok" THEN file' = file
          ELSE LET name == active_issue[1]
                   old == Issues(file)[name]
                   new == Issues(file')[name]
               IN
               /\ DOMAIN Issues(file') = DOMAIN Issues(file)
               /\ \A n \in (DOMAIN Issues(file)) \ {name} :
                    Issues(file')[n] = Issues(file)[n]
               /\ new.description = old.description
               /\ new.status = old.status
               /\ last'.op = "update_task_status"
                    => /\ Len(new.tasks) = Len(old.tasks)
                       /\ \A i \in 1..Len(old.tasks) :
                            /\ new.tasks[i].id = old.tasks[i].id
                            /\ new.tasks[i].title = old.tasks[i].title
                            /\ new.tasks[i].description
                                 = old.tasks[i].description
                            /\ old.tasks[i].id # last'.task_id
                                 => new.tasks[i].status = old.tasks[i].status]_vars

\* C22's case: update_task_status has just changed the first of two tasks
\* of an issue that has a description and the status Done, and the store
\* holds another issue.
C22_Witness ==
    /\ last.op = "update_task_status"
    /\ last.kind = "ok"
    /\ last.old # last.new
    /\ Cardinality(DOMAIN Issues(file)) = 2
    /\ Issues(file)[active_issue[1]].description = "d"
    /\ Issues(file)[active_issue[1]].status = "Done"
    /\ Len(ActiveTasks(file, active_issue)) = 2
    /\ ActiveTasks(file, active_issue)[1].id = last.task_id
    /\ ActiveTasks(file, active_issue)[2].status # last.new

====
